---- MODULE Spec2Model ----
(***************************************************************************)
(* Flashcard quiz (src/flashcard_quiz.py): the quiz session kept in        *)
(* st.session_state, the handlers that change it, the script run (main)    *)
(* that re-renders after every event, and the results file.                *)
(*                                                                         *)
(* A step is either an event with its handler, which ends in st.rerun() or  *)
(* in a widget-triggered rerun (pending becomes TRUE), or the script run    *)
(* that follows it; while a run is pending nothing else can happen.         *)
(*                                                                         *)
(* The script run of a displayed question ends at line 503 with NameError  *)
(* (Line503Raises), before the Submit / Show Answer / Next buttons of      *)
(* lines 506-520 are created: `offered` holds what a run really leaves on  *)
(* the page.  Spec delivers handle_submit, handle_show_answer and          *)
(* handle_next_question under the conditions of lines 506-520 as written   *)
(* (ActionButtons), and also delivers the first two again on a resolved    *)
(* question; Start and the two Restart buttons are taken from `offered`.   *)
(*                                                                         *)
(* Text is a sequence of one-character strings, so that str.strip() and    *)
(* str.lower() are computed, not assumed.  An Optional[str] is a sequence  *)
(* of at most one text: None is << >>, the value t is << t >>.             *)
(***************************************************************************)
EXTENDS Integers, Sequences, FiniteSets, TLC

\* ------------------------------------------------------------------ bounds
\* start_quiz may be called this many times in one behaviour
MaxSessions == 2

\* ------------------------------------------------------------------ text
Whitespace == {" "}

RECURSIVE LStrip(_)
LStrip(s) == IF s # << >> /\ Head(s) \in Whitespace THEN LStrip(Tail(s)) ELSE s

RECURSIVE RStrip(_)
RStrip(s) ==
    IF s # << >> /\ s[Len(s)] \in Whitespace
    THEN RStrip(SubSeq(s, 1, Len(s) - 1))
    ELSE s

\* str.strip()
Strip(s) == RStrip(LStrip(s))

LowerChar(c) ==
    CASE c = "A" -> "a"
      [] c = "B" -> "b"
      [] c = "N" -> "n"
      [] OTHER -> c

\* str.lower()
Lower(s) == [i \in DOMAIN s |-> LowerChar(s[i])]

None == << >>
Some(t) == << t >>

\* the literal "No answer" of handle_incorrect_answer
NoAnswerText == << "N", "o", " ", "a", "n", "s", "w", "e", "r" >>

\* ------------------------------------------------------------------ decks
COL_QUESTION == "questions"
COL_ANSWER == "answer"
NUM_OPTIONS == 5

\* absent key SS_CURRENT_INDEX
NoIndex == 0 - 1

\* the deck of the end-to-end example
E2EDeck ==
    << [questions |-> "2+2", answer |-> << "4" >>],
       [questions |-> "3+3", answer |-> << "6" >>],
       [questions |-> "4+4", answer |-> << "8" >>] >>

OneDeck == << [questions |-> "q", answer |-> << "a" >>] >>

\* the first answer needs strip() to equal the option shown for it
TwoDeck ==
    << [questions |-> "2+2", answer |-> << "4", " " >>],
       [questions |-> "3+3", answer |-> << "6" >>] >>


\* a deck with the text "No answer" among its answers, so among the options
NoAnswerDeck ==
    << [questions |-> "q1", answer |-> NoAnswerText],
       [questions |-> "q2", answer |-> << "a" >>] >>

Decks == {OneDeck, TwoDeck}

\* user names typed into the sidebar text input
UserNames == {"alice"}

\* ------------------------------------------------------------------ helpers
_get_default_quiz_state ==
    [ quiz_started |-> TRUE,
      correct_count |-> 0,
      incorrect_count |-> 0,
      correct_questions |-> << >>,
      incorrect_questions |-> << >>,
      show_answer |-> FALSE,
      user_answers |-> << >>,
      submitted |-> FALSE,
      show_answer_clicked |-> FALSE,
      used_questions |-> {},
      current_options |-> << >>,
      results_recorded |-> FALSE ]

\* dict.get(key): None when the key is missing
DictGet(d, k) == IF k \in DOMAIN d THEN d[k] ELSE None

\* d[key] = value
DictSet(d, k, v) == [j \in DOMAIN d \cup {k} |-> IF j = k THEN v ELSE d[j]]

\* set(range(len(flashcards)))
AllIndices(cards) == 0 .. (Len(cards) - 1)

\* flashcards[i] (Python indexes from 0)
Card(cards, i) == cards[i + 1]

\* st.session_state['all_answers']
AllAnswers(cards) == {cards[k].answer : k \in DOMAIN cards}

\* every ordering of a finite set: random.shuffle(list(options))
Perms(S) ==
    {p \in [1 .. Cardinality(S) -> S] : \A x \in S : \E k \in DOMAIN p : p[k] = x}


\* generate_options that starts from the empty set of options
generate_options_without_correct(correct_answer, all_answers, num_options) ==
    LET correct_lower == Lower(Strip(correct_answer))
        other_answers == {ans \in all_answers : Lower(Strip(ans)) # correct_lower}
        num_incorrect_needed == num_options - 1
        pool == {Strip(ans) : ans \in other_answers}
        finals ==
            IF Cardinality(pool) >= num_incorrect_needed
            THEN {x \in SUBSET pool : Cardinality(x) = num_incorrect_needed}
            ELSE {pool}
    IN  UNION {Perms(f) : f \in finals}

\* generate_options that takes the other answers as they are, untrimmed
generate_options_untrimmed_pool(correct_answer, all_answers, num_options) ==
    LET options == {Strip(correct_answer)}
        correct_lower == Lower(Strip(correct_answer))
        other_answers == {ans \in all_answers : Lower(Strip(ans)) # correct_lower}
        num_incorrect_needed == num_options - 1
        pool == other_answers
        finals ==
            IF Cardinality(pool) >= num_incorrect_needed
            THEN {options \cup smp :
                    smp \in {x \in SUBSET pool : Cardinality(x) = num_incorrect_needed}}
            ELSE {options \cup pool}
    IN  UNION {Perms(f) : f \in finals}

\* generate_options that samples num_options incorrect answers
generate_options_one_more(correct_answer, all_answers, num_options) ==
    LET options == {Strip(correct_answer)}
        correct_lower == Lower(Strip(correct_answer))
        other_answers == {ans \in all_answers : Lower(Strip(ans)) # correct_lower}
        num_incorrect_needed == num_options
        pool == {Strip(ans) : ans \in other_answers}
        finals ==
            IF Cardinality(pool) >= num_incorrect_needed
            THEN {options \cup smp :
                    smp \in {x \in SUBSET pool : Cardinality(x) = num_incorrect_needed}}
            ELSE {options \cup pool}
    IN  UNION {Perms(f) : f \in finals}

\* the lists generate_options can return
generate_options(correct_answer, all_answers, num_options) ==
    LET options == {Strip(correct_answer)}
        correct_lower == Lower(Strip(correct_answer))
        other_answers == {ans \in all_answers : Lower(Strip(ans)) # correct_lower}
        num_incorrect_needed == num_options - 1
        pool == {Strip(ans) : ans \in other_answers}
        finals ==
            IF Cardinality(pool) >= num_incorrect_needed
            THEN {options \cup smp :
                    smp \in {x \in SUBSET pool : Cardinality(x) = num_incorrect_needed}}
            ELSE {options \cup pool}
    IN  UNION {Perms(f) : f \in finals}


\* check_answer that compares the trimmed texts as they are, case included
check_answer_case_sensitive(user_answer, correct_answer) ==
    IF user_answer = None
    THEN FALSE
    ELSE Strip(user_answer[1]) = Strip(correct_answer)

check_answer(user_answer, correct_answer) ==
    IF user_answer = None
    THEN FALSE
    ELSE Lower(Strip(user_answer[1])) = Lower(Strip(correct_answer))


\* handle_incorrect_answer that logs the question and leaves the count
handle_incorrect_answer_no_count(qd, current_card, user_answer) ==
    [qd EXCEPT
        !.incorrect_questions = Append(@,
            [ Question |-> current_card.questions,
              Correct_Answer |-> current_card.answer,
              Your_Answer |-> IF user_answer # None THEN user_answer[1]
                                                    ELSE NoAnswerText ])]


\* handle_incorrect_answer that counts the question and logs nothing
handle_incorrect_answer_no_log(qd, current_card, user_answer) ==
    [qd EXCEPT !.incorrect_count = @ + 1]

handle_incorrect_answer(qd, current_card, user_answer) ==
    [qd EXCEPT
        !.incorrect_count = @ + 1,
        !.incorrect_questions = Append(@,
            [ Question |-> current_card.questions,
              Correct_Answer |-> current_card.answer,
              Your_Answer |-> IF user_answer # None THEN user_answer[1]
                                                    ELSE NoAnswerText ])]


\* handle_submit without the used_questions guards
handle_submit_unguarded(qd, cards, current_index) ==
    LET current_card == Card(cards, current_index)
        user_answer == DictGet(qd.user_answers, current_index)
        counted ==
            IF check_answer(user_answer, current_card.answer)
            THEN [qd EXCEPT
                    !.correct_count = @ + 1,
                    !.correct_questions = Append(@,
                        [ questions |-> current_card.questions,
                          answer |-> current_card.answer ])]
            ELSE handle_incorrect_answer(qd, current_card, user_answer)
    IN  [counted EXCEPT
            !.submitted = TRUE,
            !.show_answer = TRUE,
            !.used_questions = @ \cup {current_index}]

\* handle_submit up to its st.rerun(): the new quiz_data

\* handle_submit that leaves show_answer as it is
handle_submit_no_reveal(qd, cards, current_index) ==
    LET current_card == Card(cards, current_index)
        user_answer == DictGet(qd.user_answers, current_index)
        counted ==
            IF check_answer(user_answer, current_card.answer)
            THEN IF current_index \notin qd.used_questions
                 THEN [qd EXCEPT
                        !.correct_count = @ + 1,
                        !.correct_questions = Append(@,
                            [ questions |-> current_card.questions,
                              answer |-> current_card.answer ])]
                 ELSE qd
            ELSE IF current_index \notin qd.used_questions
                 THEN handle_incorrect_answer(qd, current_card, user_answer)
                 ELSE qd
    IN  [counted EXCEPT
            !.submitted = TRUE,
            !.used_questions = @ \cup {current_index}]

handle_submit(qd, cards, current_index) ==
    LET current_card == Card(cards, current_index)
        user_answer == DictGet(qd.user_answers, current_index)
        counted ==
            IF check_answer(user_answer, current_card.answer)
            THEN IF current_index \notin qd.used_questions
                 THEN [qd EXCEPT
                        !.correct_count = @ + 1,
                        !.correct_questions = Append(@,
                            [ questions |-> current_card.questions,
                              answer |-> current_card.answer ])]
                 ELSE qd
            ELSE IF current_index \notin qd.used_questions
                 THEN handle_incorrect_answer(qd, current_card, user_answer)
                 ELSE qd
    IN  [counted EXCEPT
            !.submitted = TRUE,
            !.show_answer = TRUE,
            !.used_questions = @ \cup {current_index}]



\* handle_show_answer that evaluates the stored answer, as handle_submit does
handle_show_answer_evaluates(qd, cards, current_index) ==
    LET current_card == Card(cards, current_index)
        user_answer == DictGet(qd.user_answers, current_index)
        shown == [qd EXCEPT !.show_answer = TRUE, !.show_answer_clicked = TRUE]
        counted ==
            IF current_index \notin shown.used_questions
            THEN [(IF check_answer(user_answer, current_card.answer)
                   THEN [shown EXCEPT
                            !.correct_count = @ + 1,
                            !.correct_questions = Append(@,
                                [ questions |-> current_card.questions,
                                  answer |-> current_card.answer ])]
                   ELSE handle_incorrect_answer(shown, current_card, user_answer))
                    EXCEPT !.used_questions = @ \cup {current_index}]
            ELSE shown
    IN  [counted EXCEPT !.submitted = TRUE]

\* handle_show_answer without its used_questions.add
handle_show_answer_no_mark(qd, cards, current_index) ==
    LET current_card == Card(cards, current_index)
        shown == [qd EXCEPT !.show_answer = TRUE, !.show_answer_clicked = TRUE]
        counted ==
            IF current_index \notin shown.used_questions
            THEN handle_incorrect_answer(shown, current_card,
                        DictGet(shown.user_answers, current_index))
            ELSE shown
    IN  [counted EXCEPT !.submitted = TRUE]

\* handle_show_answer up to its st.rerun(): the new quiz_data
handle_show_answer(qd, cards, current_index) ==
    LET current_card == Card(cards, current_index)
        shown == [qd EXCEPT !.show_answer = TRUE, !.show_answer_clicked = TRUE]
        counted ==
            IF current_index \notin shown.used_questions
            THEN [handle_incorrect_answer(shown, current_card,
                        DictGet(shown.user_answers, current_index))
                    EXCEPT !.used_questions = @ \cup {current_index}]
            ELSE shown
    IN  [counted EXCEPT !.submitted = TRUE]


\* handle_next_question without the reset of QK_SUBMITTED
handle_next_question_keeps_submitted(qd) ==
    [qd EXCEPT
        !.show_answer = FALSE,
        !.show_answer_clicked = FALSE,
        !.current_options = << >>]

\* handle_next_question up to its st.rerun(): the new quiz_data
\* (the action also deletes SS_CURRENT_INDEX)

\* handle_next_question that leaves the options of the question in place
handle_next_question_keeps_options(qd) ==
    [qd EXCEPT
        !.show_answer = FALSE,
        !.submitted = FALSE,
        !.show_answer_clicked = FALSE]

handle_next_question(qd) ==
    [qd EXCEPT
        !.show_answer = FALSE,
        !.submitted = FALSE,
        !.show_answer_clicked = FALSE,
        !.current_options = << >>]

\* ------------------------------------------------------------------ state
VARIABLES
    flashcards,          \* st.session_state[SS_FLASHCARDS]
    user,                \* st.session_state[SS_USER]
    quiz_data,           \* st.session_state[SS_QUIZ_DATA]
    current_card_index,  \* st.session_state[SS_CURRENT_INDEX], NoIndex when absent
    radio,               \* state of the st.radio widget: its key and its value
    results_file,        \* rows of RESULTS_FILE, << >> when absent or empty
    view,                \* what the last script run displayed
    offered,             \* the enabled buttons the last script run created
    messages,            \* st.warning / st.error / st.success of the last run
    pending,             \* a script run is due (st.rerun() or a widget event)
    session,             \* history: number of start_quiz calls so far
    appends,             \* history: rows written for the current session
    drawn,               \* history: indices drawn in the current session, in order
    lastEvent,           \* history: the step taken last
    call                 \* history: the last direct call of a pure function

vars == << flashcards, user, quiz_data, current_card_index, radio, results_file,
           view, offered, messages, pending, session, appends, drawn, lastEvent,
           call >>

history == << session, appends, drawn, call >>

\* no pure function has been called directly
NoCall == [fn |-> "none"]

NoRadio == [key |-> NoIndex, value |-> None]


\* the draw made from every index, used or not
Available_all(cards, qd) == AllIndices(cards)

\* all_indices - used_indices of main
Available(cards, qd) == AllIndices(cards) \ qd.used_questions


\* finished one card early
is_finished_one_early(cards, qd) == Cardinality(Available(cards, qd)) <= 1

\* `not available_indices` of main, for a started quiz
is_finished(cards, qd) == Available(cards, qd) = {}


\* lines 506-520 with the Submit button enabled whatever the radio's value
ActionButtons_submit_enabled(qd, user_answer) ==
    IF qd.submitted \/ qd.show_answer_clicked
    THEN {"next"}
    ELSE {"submit", "show_answer"}

\* main, lines 506-520, as written: the buttons the branch creates enabled,
\* given the flags and the radio's value
ActionButtons(qd, user_answer) ==
    IF qd.submitted \/ qd.show_answer_clicked
    THEN {"next"}
    ELSE (IF user_answer = None THEN {} ELSE {"submit"}) \cup {"show_answer"}

\* main, line 503 reads quiz_data[QK_SHOW_ANSWER_clicked]; the module binds
\* QK_SHOW_ANSWER_CLICKED (line 29) and no QK_SHOW_ANSWER_clicked, so the
\* evaluation raises NameError and the script run ends there.
Line503Raises == TRUE

\* the buttons a script run leaves on the page while a question is displayed
QuestionButtons(qd, user_answer) ==
    {"restart_sidebar"} \cup
    (IF Line503Raises THEN {} ELSE ActionButtons(qd, user_answer) \cup {"history"})

\* pandas.read_csv on a text cell: the default NA strings are read as NaN
NaStrings == {"", "NA"}
NaN == "NaN (float)"
ReadCell(s) == IF s \in NaStrings THEN NaN ELSE s

\* DataFrame.to_csv on a cell: NaN is written as the empty string
WriteCell(v) == IF v = NaN THEN "" ELSE v

\* load_quiz_results: the rows as records; [] when the read fails
load_quiz_results(rows, readOK) ==
    IF readOK THEN [k \in DOMAIN rows |-> [rows[k] EXCEPT !.User = ReadCell(@)]]
    ELSE << >>

\* save_quiz_results: the rows of the file after the call
save_quiz_results(results, rows, writeOK) ==
    IF writeOK THEN [k \in DOMAIN results |-> [results[k] EXCEPT !.User = WriteCell(@)]]
    ELSE rows

\* the row with the two counts in each other's place
HistoryEntry_swapped(qd, cards, usr, now) ==
    [ Timestamp |-> now,
      User |-> usr,
      Correct_Count |-> qd.incorrect_count,
      Incorrect_Count |-> qd.correct_count,
      Total_Questions |-> Len(cards),
      Incorrect_Details |->
          [k \in DOMAIN qd.incorrect_questions |->
              << qd.incorrect_questions[k].Question,
                 qd.incorrect_questions[k].Correct_Answer,
                 qd.incorrect_questions[k].Your_Answer >>] ]

\* the row record_quiz_attempt builds
HistoryEntry(qd, cards, usr, now) ==
    [ Timestamp |-> now,
      User |-> usr,
      Correct_Count |-> qd.correct_count,
      Incorrect_Count |-> qd.incorrect_count,
      Total_Questions |-> Len(cards),
      Incorrect_Details |->
          [k \in DOMAIN qd.incorrect_questions |->
              << qd.incorrect_questions[k].Question,
                 qd.incorrect_questions[k].Correct_Answer,
                 qd.incorrect_questions[k].Your_Answer >>] ]

\* record_quiz_attempt: [rows, messages, written]
record_quiz_attempt(qd, cards, usr, rows, now, readOK, writeOK) ==
    IF usr = "" \/ usr = "Unknown"
    THEN [rows |-> rows, messages |-> {"warning_user_not_set"}, written |-> 0]
    ELSE LET results == Append(load_quiz_results(rows, readOK),
                               HistoryEntry(qd, cards, usr, now))
         IN  [ rows |-> save_quiz_results(results, rows, writeOK),
               messages |-> (IF readOK THEN {} ELSE {"error_loading"})
                            \cup (IF writeOK THEN {} ELSE {"error_saving"})
                            \cup {"success_recorded"},
               written |-> IF writeOK THEN 1 ELSE 0 ]


\* the attempt recorded on every script run of the finished quiz
NeedsRecord_always(qd) == TRUE

\* main, line 472: 'results_recorded' not in quiz_data
NeedsRecord(qd) == ~qd.results_recorded

\* the session once a deck of `decks` is loaded and main has run (lines 431-461)
Loaded(decks) ==
    /\ flashcards \in decks
    /\ user = ""
    /\ quiz_data = [_get_default_quiz_state EXCEPT !.quiz_started = FALSE]
    /\ current_card_index = NoIndex
    /\ radio = NoRadio
    /\ results_file = << >>
    /\ view = "start"
    /\ offered = {"start", "history"}
    /\ messages = {}
    /\ pending = FALSE
    /\ session = 0
    /\ appends = 0
    /\ drawn = << >>
    /\ lastEvent = "init"

Init == Loaded(Decks) /\ call = NoCall

\* ------------------------------------------------------------------ script run
\* main with the quiz not started (lines 458-461)
RenderStart ==
    /\ pending
    /\ ~quiz_data.quiz_started
    /\ view' = "start"
    /\ offered' = {"start", "history"}
    /\ messages' = {}
    /\ radio' = NoRadio
    /\ pending' = FALSE
    /\ lastEvent' = "render_start"
    /\ UNCHANGED << flashcards, user, quiz_data, current_card_index, results_file,
                    history >>

\* main with every index used (lines 469-474): the results view, and the
\* record of the attempt on the first such run
RenderResults ==
    /\ pending
    /\ quiz_data.quiz_started
    /\ is_finished(flashcards, quiz_data)
    /\ view' = "results"
    /\ offered' = {"restart_results", "history"}
    /\ radio' = NoRadio
    /\ pending' = FALSE
    /\ lastEvent' = "render_results"
    /\ IF NeedsRecord(quiz_data)
       THEN \E readOK \in BOOLEAN, writeOK \in BOOLEAN :
              LET r == record_quiz_attempt(quiz_data, flashcards, user,
                                           results_file, session, readOK, writeOK)
              IN  /\ results_file' = r.rows
                  /\ messages' = r.messages
                  /\ appends' = appends + r.written
                  /\ quiz_data' = [quiz_data EXCEPT !.results_recorded = TRUE]
       ELSE /\ messages' = {}
            /\ UNCHANGED << results_file, appends, quiz_data >>
    /\ UNCHANGED << flashcards, user, current_card_index, session, drawn, call >>


\* no options are kept from one script run to the next
CachedOptions_none(qd, fresh) == << >>

\* main, lines 477-485: the options found in quiz_data, None after a draw
CachedOptions(qd, fresh) == IF fresh THEN << >> ELSE qd.current_options

\* main with an index left (lines 476-520): draw when no index is stored,
\* generate the options when none are cached, store the radio's value
RenderQuestion ==
    /\ pending
    /\ quiz_data.quiz_started
    /\ ~is_finished(flashcards, quiz_data)
    /\ LET fresh == current_card_index = NoIndex
       IN \E idx \in (IF fresh THEN Available(flashcards, quiz_data)
                               ELSE {current_card_index}) :
          \E options \in (IF CachedOptions(quiz_data, fresh) = << >>
                          THEN generate_options(Card(flashcards, idx).answer,
                                                AllAnswers(flashcards), NUM_OPTIONS)
                          ELSE {CachedOptions(quiz_data, fresh)}) :
            LET user_answer == IF radio.key = idx THEN radio.value ELSE None
                qd == [quiz_data EXCEPT
                          !.current_options = options,
                          !.user_answers = DictSet(@, idx, user_answer)]
            IN  /\ current_card_index' = idx
                /\ quiz_data' = qd
                /\ radio' = [key |-> idx, value |-> user_answer]
                /\ offered' = QuestionButtons(qd, user_answer)
                /\ drawn' = IF fresh THEN Append(drawn, idx) ELSE drawn
    /\ view' = "question"
    /\ messages' = (IF Line503Raises THEN {"NameError"} ELSE {})
    /\ pending' = FALSE
    /\ lastEvent' = "render_question"
    /\ UNCHANGED << flashcards, user, results_file, session, appends, call >>

Render == RenderStart \/ RenderResults \/ RenderQuestion

\* ------------------------------------------------------------------ events
\* start_quiz without the removal of SS_CURRENT_INDEX
start_quiz_keeps_index(ev) ==
    /\ session < MaxSessions
    /\ flashcards' = flashcards
    /\ quiz_data' = _get_default_quiz_state
    /\ pending' = TRUE
    /\ session' = session + 1
    /\ appends' = 0
    /\ drawn' = << >>
    /\ lastEvent' = ev
    /\ UNCHANGED << current_card_index, user, radio, results_file, view, offered,
                    messages, call >>


\* start_quiz that carries the results_recorded marker over to the new quiz
start_quiz_keeps_marker(ev) ==
    /\ session < MaxSessions
    /\ flashcards' = flashcards
    /\ quiz_data' = [_get_default_quiz_state EXCEPT
                        !.results_recorded = quiz_data.results_recorded]
    /\ current_card_index' = NoIndex
    /\ pending' = TRUE
    /\ session' = session + 1
    /\ appends' = 0
    /\ drawn' = << >>
    /\ lastEvent' = ev
    /\ UNCHANGED << user, radio, results_file, view, offered, messages, call >>

\* start_quiz up to its st.rerun()
start_quiz(ev) ==
    /\ session < MaxSessions
    /\ flashcards' = flashcards
    /\ quiz_data' = _get_default_quiz_state
    /\ current_card_index' = NoIndex
    /\ pending' = TRUE
    /\ session' = session + 1
    /\ appends' = 0
    /\ drawn' = << >>
    /\ lastEvent' = ev
    /\ UNCHANGED << user, radio, results_file, view, offered, messages, call >>

\* "Start Quiz" (line 460)
ClickStart == ~pending /\ "start" \in offered /\ start_quiz("start")

\* "Restart Quiz Now" in the sidebar (line 450)
ClickRestartSidebar ==
    ~pending /\ "restart_sidebar" \in offered /\ start_quiz("restart_sidebar")

\* "Restart Quiz" under the results (line 267)
ClickRestartResults ==
    ~pending /\ "restart_results" \in offered /\ start_quiz("restart_results")

\* the user picks an option of the radio (line 157)
SelectAnswer ==
    /\ ~pending
    /\ view = "question"
    /\ \E k \in DOMAIN quiz_data.current_options :
          /\ radio.value # Some(quiz_data.current_options[k])
          /\ radio' = [key |-> current_card_index,
                       value |-> Some(quiz_data.current_options[k])]
    /\ pending' = TRUE
    /\ lastEvent' = "select"
    /\ UNCHANGED << flashcards, user, quiz_data, current_card_index, results_file,
                    view, offered, messages, history >>

\* the user types a name (lines 386-388)
SetUser ==
    /\ ~pending
    /\ \E name \in UserNames : name # user /\ user' = name
    /\ pending' = TRUE
    /\ lastEvent' = "set_user"
    /\ UNCHANGED << flashcards, quiz_data, current_card_index, radio, results_file,
                    view, offered, messages, history >>

\* a script run with no change to the session
Rerun ==
    /\ ~pending
    /\ pending' = TRUE
    /\ lastEvent' = "rerun"
    /\ UNCHANGED << flashcards, user, quiz_data, current_card_index, radio,
                    results_file, view, offered, messages, history >>

\* a handler of the question's buttons runs on the stored index
Deliver(ev, qd) ==
    /\ quiz_data' = qd
    /\ pending' = TRUE
    /\ lastEvent' = ev
    /\ UNCHANGED << flashcards, user, radio, results_file, view, offered,
                    messages, history >>

\* "Submit Answer" (lines 512-514)
Submit ==
    /\ ~pending /\ view = "question"
    /\ "submit" \in ActionButtons(quiz_data, radio.value)
    /\ Deliver("submit", handle_submit(quiz_data, flashcards, current_card_index))
    /\ UNCHANGED current_card_index

\* "Show Answer" (lines 517-520)
ShowAnswer ==
    /\ ~pending /\ view = "question"
    /\ "show_answer" \in ActionButtons(quiz_data, radio.value)
    /\ Deliver("show_answer",
               handle_show_answer(quiz_data, flashcards, current_card_index))
    /\ UNCHANGED current_card_index

\* "Next Question" (lines 506-508)
NextQuestion ==
    /\ ~pending /\ view = "question"
    /\ "next" \in ActionButtons(quiz_data, radio.value)
    /\ Deliver("next", handle_next_question(quiz_data))
    /\ current_card_index' = NoIndex

\* handle_submit delivered again for a question that is resolved already
ResubmitDelivered ==
    /\ ~pending /\ view = "question"
    /\ current_card_index \in quiz_data.used_questions
    /\ Deliver("resubmit", handle_submit(quiz_data, flashcards, current_card_index))
    /\ UNCHANGED current_card_index

\* handle_show_answer delivered again for a question that is resolved already
RevealDelivered ==
    /\ ~pending /\ view = "question"
    /\ current_card_index \in quiz_data.used_questions
    /\ Deliver("rereveal",
               handle_show_answer(quiz_data, flashcards, current_card_index))
    /\ UNCHANGED current_card_index


\* ------------------------------------------------------------------ end to end
\* the answer `text` is put in the radio's value for the displayed question
\* (the example's "7" is wrong for every card of its deck)
EnterAnswer(text) ==
    /\ ~pending
    /\ view = "question"
    /\ radio' = [key |-> current_card_index, value |-> Some(text)]
    /\ pending' = TRUE
    /\ lastEvent' = "select"
    /\ UNCHANGED << flashcards, user, quiz_data, current_card_index, results_file,
                    view, offered, messages, history >>

\* number of the question on display, in the order drawn
QuestionNo == Len(drawn)

\* Start
E2EStart == ClickStart

\* first card: select the option that is its answer, then Submit
E2ESelectCorrect ==
    /\ QuestionNo = 1 /\ radio.value = None /\ ~quiz_data.submitted
    /\ SelectAnswer
    /\ check_answer(radio'.value, Card(flashcards, current_card_index).answer)

E2ESubmitFirst == QuestionNo = 1 /\ Submit

\* Next after the first and after the second card
E2ENext == QuestionNo \in {1, 2} /\ NextQuestion

\* second card: Reveal with nothing selected
E2EReveal == QuestionNo = 2 /\ radio.value = None /\ ShowAnswer

\* third card: the wrong answer "7", then Submit
E2EEnterWrong ==
    /\ QuestionNo = 3 /\ radio.value = None /\ ~quiz_data.submitted
    /\ EnterAnswer(<< "7" >>)

E2ESubmitThird == QuestionNo = 3 /\ Submit

NextE2E ==
    \/ RenderResults
    \/ RenderQuestion
    \/ E2EStart
    \/ E2ESelectCorrect
    \/ E2ESubmitFirst
    \/ E2ENext
    \/ E2EReveal
    \/ E2EEnterWrong
    \/ E2ESubmitThird

InitE2E == Loaded({E2EDeck}) /\ call = NoCall

SpecE2E == InitE2E /\ [][NextE2E]_vars

Next ==
    \/ RenderStart
    \/ RenderResults
    \/ RenderQuestion
    \/ ClickStart
    \/ ClickRestartSidebar
    \/ ClickRestartResults
    \/ SelectAnswer
    \/ SetUser
    \/ Rerun
    \/ Submit
    \/ ShowAnswer
    \/ NextQuestion
    \/ ResubmitDelivered
    \/ RevealDelivered

Spec == Init /\ [][Next]_vars


\* ------------------------------------------------------------------ direct calls
\* answer texts with case and whitespace variants of one another
AnswerTexts ==
    { << "a" >>, << "A" >>, << "a", " " >>, << " ", "a" >>,
      << "b" >>, << "B" >>, << " ", "b" >>, << "n" >> }

\* all_answers holds the correct answer and at most this many other texts
MaxUniverse == 3

\* num_options ranges over 1 .. MaxWidth
MaxWidth == 3

\* all_answers as main builds it (line 434): the answers of the deck, that of
\* the current card among them
Universes(correct_answer) ==
    {S \cup {correct_answer} :
        S \in {x \in SUBSET AnswerTexts : Cardinality(x) <= MaxUniverse}}

session_state ==
    << flashcards, user, quiz_data, current_card_index, radio, results_file,
       view, offered, messages, pending, session, appends, drawn, lastEvent >>

\* the arguments of one direct call, its result not computed yet
Arguments ==
    UNION {
        {[fn |-> "generate_options", correct_answer |-> c, all_answers |-> u,
          num_options |-> n, returned |-> FALSE, result |-> << >>] :
            u \in Universes(c), n \in 1 .. MaxWidth}
        \cup
        {[fn |-> "check_answer", user_answer |-> ua, correct_answer |-> c,
          returned |-> FALSE, result |-> FALSE] :
            ua \in {None} \cup {Some(t) : t \in AnswerTexts}}
        : c \in AnswerTexts }

InitCalls == Loaded({OneDeck}) /\ call \in Arguments

\* generate_options(correct_answer, all_answers, num_options) returns
CallGenerateOptions ==
    /\ call.fn = "generate_options" /\ ~call.returned
    /\ \E result \in generate_options(call.correct_answer, call.all_answers,
                                      call.num_options) :
          call' = [call EXCEPT !.returned = TRUE, !.result = result]
    /\ UNCHANGED session_state

\* check_answer(user_answer, correct_answer) returns
CallCheckAnswer ==
    /\ call.fn = "check_answer" /\ ~call.returned
    /\ call' = [call EXCEPT !.returned = TRUE,
                            !.result = check_answer(call.user_answer,
                                                    call.correct_answer)]
    /\ UNCHANGED session_state

NextCalls == CallGenerateOptions \/ CallCheckAnswer

SpecCalls == InitCalls /\ [][NextCalls]_vars


InitNoAnswer == Loaded({NoAnswerDeck}) /\ call = NoCall

SpecNoAnswer == InitNoAnswer /\ [][Next]_vars

\* ------------------------------------------------------------------ claims
Started == quiz_data.quiz_started
Used == quiz_data.used_questions
Finished == Started /\ Used = AllIndices(flashcards)
HasCurrent == current_card_index # NoIndex
CurrentCard == Card(flashcards, current_card_index)
StoredAnswer == DictGet(quiz_data.user_answers, current_card_index)
\* the step just taken is a script run
RenderStep == pending /\ ~pending'
StartEvents == {"start", "restart_sidebar", "restart_results"}

\* C1: in every reachable state correct_count + incorrect_count is the number
\* of used indices, and that number is at most the deck size.
C1_CountsMatchUsed ==
    /\ quiz_data.correct_count + quiz_data.incorrect_count = Cardinality(Used)
    /\ Cardinality(Used) <= Len(flashcards)

\* a restarted session has finished with one question counted correct and
\* one counted incorrect
C1_Witness ==
    /\ session = 2 /\ view = "results" /\ ~pending
    /\ quiz_data.correct_count = 1
    /\ quiz_data.incorrect_count = 1

\* C2 (as the spec states it): a stored current index is never a used index.
C2_CurrentNeverUsed == HasCurrent => current_card_index \notin Used

\* C2 (amended): a stored current index is unused exactly while its question
\* is unresolved; once Submit or Reveal has resolved it, and in the finished
\* state reached without Next, it is a used index until Next or a restart
\* removes it.
C2_CurrentUsedIffResolved ==
    HasCurrent => (current_card_index \in Used <=> quiz_data.submitted)

\* a later question of the session being answered, and unresolved
C2_Witness ==
    /\ view = "question" /\ ~pending
    /\ HasCurrent /\ ~quiz_data.submitted
    /\ Used # {}

\* C3: every script run of a started quiz shows the results and draws
\* nothing exactly when every index is used, and otherwise shows a question
\* with an index stored.
C3_FinishDetection ==
    [][ (RenderStep /\ Started) =>
            IF Used = AllIndices(flashcards)
            THEN /\ view' = "results"
                 /\ current_card_index' = current_card_index
                 /\ drawn' = drawn
            ELSE /\ view' = "question"
                 /\ current_card_index' \in AllIndices(flashcards) ]_vars

\* the results are on display while the last card's index is still stored:
\* Next was never pressed for it
C3_Witness ==
    /\ view = "results" /\ ~pending
    /\ HasCurrent /\ quiz_data.submitted
    /\ Used = AllIndices(flashcards)

\* C4: handle_submit delivered for an index that is used already leaves the
\* counters, the logs and the used set as they were, whatever answer is stored.
C4_ResubmitIdempotent ==
    [][ lastEvent' = "resubmit" =>
            /\ current_card_index \in Used
            /\ quiz_data'.correct_count = quiz_data.correct_count
            /\ quiz_data'.incorrect_count = quiz_data.incorrect_count
            /\ quiz_data'.correct_questions = quiz_data.correct_questions
            /\ quiz_data'.incorrect_questions = quiz_data.incorrect_questions
            /\ quiz_data'.used_questions = quiz_data.used_questions ]_vars

\* Submit delivered again for a question counted incorrect, with the correct
\* answer stored by now
C4_Witness ==
    /\ lastEvent = "resubmit"
    /\ quiz_data.incorrect_count = 1 /\ quiz_data.correct_count = 0
    /\ check_answer(StoredAnswer, CurrentCard.answer)

\* the counters and logs of the session
Tally(qd) ==
    << qd.correct_count, qd.incorrect_count, qd.correct_questions,
       qd.incorrect_questions, qd.used_questions >>

\* C5: Reveal on an unresolved question adds one to incorrect_count and one
\* entry to the incorrect log, leaves correct_count and the correct log alone
\* and marks the index used, whatever answer is stored; from then on Submit
\* is not offered for that question and no step on that question changes the
\* counters or logs.
C5_RevealCountsIncorrectOnce ==
    /\ [][ lastEvent' = "show_answer" =>
            /\ current_card_index \notin Used
            /\ quiz_data'.incorrect_count = quiz_data.incorrect_count + 1
            /\ quiz_data'.correct_count = quiz_data.correct_count
            /\ Len(quiz_data'.incorrect_questions) =
                    Len(quiz_data.incorrect_questions) + 1
            /\ quiz_data'.correct_questions = quiz_data.correct_questions
            /\ quiz_data'.used_questions = Used \cup {current_card_index} ]_vars
    /\ [](quiz_data.show_answer_clicked =>
            /\ "submit" \notin offered
            /\ "submit" \notin ActionButtons(quiz_data, radio.value))
    /\ [][ (quiz_data.show_answer_clicked /\ current_card_index' = current_card_index
                /\ session' = session)
            => Tally(quiz_data') = Tally(quiz_data) ]_vars

\* Reveal has just been delivered while the correct answer was selected
C5_Witness ==
    /\ lastEvent = "show_answer"
    /\ check_answer(StoredAnswer, CurrentCard.answer)
    /\ quiz_data.incorrect_count = 1 /\ quiz_data.correct_count = 0

\* C6: a session writes to the results file at most once: the write happens
\* in a script run that finds the quiz finished and not yet recorded, that
\* run sets results_recorded, and no later run of the same session writes.
C6_RecordAtMostOnce ==
    /\ [](appends <= 1)
    /\ [][ (appends' > appends \/ (results_file' # results_file)) =>
            /\ RenderStep
            /\ Finished
            /\ ~quiz_data.results_recorded
            /\ quiz_data'.results_recorded ]_vars
    /\ [][ (quiz_data.results_recorded /\ session' = session) =>
            /\ results_file' = results_file
            /\ appends' = appends
            /\ quiz_data'.results_recorded ]_vars

\* a recorded, finished session has been rendered again
C6_Witness ==
    /\ appends = 1 /\ quiz_data.results_recorded
    /\ lastEvent = "render_results" /\ messages = {}
    /\ Len(results_file) = 1

\* C7 (as the spec states it): a finished session that has been rendered has
\* added exactly one row.
C7_ExactlyOneEntry ==
    (Finished /\ view = "results" /\ ~pending) => appends = 1

\* C7 (amended): the first script run of a finished session adds one row,
\* with the session's counts and the deck size, when a user name is set and
\* the write succeeds, and adds nothing otherwise; no later run of the
\* session adds or changes a row.
C7_OneEntryWhenSaved ==
    /\ [][ (RenderStep /\ Finished /\ ~quiz_data.results_recorded) =>
            IF user \notin {"", "Unknown"} /\ "error_saving" \notin messages'
            THEN /\ appends' = 1
                 /\ results_file' # << >>
                 /\ LET e == results_file'[Len(results_file')]
                    IN  /\ e.Correct_Count = quiz_data.correct_count
                        /\ e.Incorrect_Count = quiz_data.incorrect_count
                        /\ e.Total_Questions = Len(flashcards)
                        /\ e.Correct_Count + e.Incorrect_Count = e.Total_Questions
            ELSE /\ appends' = 0
                 /\ results_file' = results_file ]_vars
    /\ [][ (quiz_data.results_recorded /\ session' = session) =>
            (results_file' = results_file /\ appends' = appends) ]_vars

\* a finished session of a named user has its row, with one correct answer
C7_Witness ==
    /\ Finished /\ view = "results" /\ ~pending
    /\ appends = 1
    /\ results_file[Len(results_file)].User = "alice"
    /\ results_file[Len(results_file)].Correct_Count = 1
    /\ results_file[Len(results_file)].Incorrect_Count = 0

\* C9: Start/Restart leaves a started session with zero counters, empty logs,
\* no used index, no stored answer, the per-question flags false, no cached
\* options and no current index, and the script run that follows draws the
\* session's first question from the full index set.
C9_StartResets ==
    /\ [][ lastEvent' \in StartEvents =>
            /\ quiz_data'.quiz_started = TRUE
            /\ quiz_data'.correct_count = 0
            /\ quiz_data'.incorrect_count = 0
            /\ quiz_data'.correct_questions = << >>
            /\ quiz_data'.incorrect_questions = << >>
            /\ quiz_data'.used_questions = {}
            /\ DOMAIN quiz_data'.user_answers = {}
            /\ ~quiz_data'.submitted
            /\ ~quiz_data'.show_answer
            /\ ~quiz_data'.show_answer_clicked
            /\ quiz_data'.current_options = << >>
            /\ ~quiz_data'.results_recorded
            /\ current_card_index' = NoIndex
            /\ pending' ]_vars
    /\ [][ (lastEvent \in StartEvents /\ RenderStep) =>
            /\ view' = "question"
            /\ current_card_index' \in AllIndices(flashcards)
            /\ drawn' = << current_card_index' >>
            /\ quiz_data'.current_options # << >> ]_vars

\* Restart has been pressed under the results of a finished, recorded session
C9_Witness ==
    /\ lastEvent = "restart_results" /\ pending
    /\ session = 2
    /\ results_file # << >>

\* no index occurs twice in a sequence
NoRepeat(sq) == \A a, b \in DOMAIN sq : a # b => sq[a] # sq[b]

\* C10: a draw stores an index that is unused at that moment, every unused
\* index can be the one drawn, and no index is drawn twice between two
\* Start/Restart events.
C10_NoRepeatDraw ==
    /\ [][ (current_card_index = NoIndex /\ current_card_index' # NoIndex) =>
            /\ current_card_index' \in AllIndices(flashcards) \ Used
            /\ drawn' = Append(drawn, current_card_index') ]_vars
    /\ [](NoRepeat(drawn))
    /\ []((pending /\ Started /\ current_card_index = NoIndex) =>
            \A i \in AllIndices(flashcards) \ Used :
                ENABLED (RenderQuestion /\ current_card_index' = i))

\* the second question of a session has been drawn after the first was resolved
C10_Witness ==
    /\ Len(drawn) = 2 /\ lastEvent = "render_question"
    /\ Used = {drawn[1]}
    /\ current_card_index = drawn[2]

\* C8: on the three-card deck, Start, a correct Submit on the first card
\* drawn, Next, Reveal with nothing selected on the second, Next, and Submit
\* of the wrong answer "7" on the third give 1 correct and 1 used index, then
\* 1 incorrect and 2 used indices, then 2 incorrect, and the session is
\* finished with 1 correct, 2 incorrect and all three indices used, whatever
\* the order of the draws.
C8_EndToEnd ==
    LET resolved == quiz_data.submitted
    IN  /\ (QuestionNo = 1 /\ resolved) =>
                /\ quiz_data.correct_count = 1
                /\ quiz_data.incorrect_count = 0
                /\ Used = {drawn[1]}
        /\ (QuestionNo = 2 /\ resolved) =>
                /\ quiz_data.correct_count = 1
                /\ quiz_data.incorrect_count = 1
                /\ Used = {drawn[1], drawn[2]}
        /\ (QuestionNo = 3 /\ resolved) =>
                /\ quiz_data.correct_count = 1
                /\ quiz_data.incorrect_count = 2
                /\ Used = {0, 1, 2}
                /\ Finished
                /\ quiz_data.incorrect_questions[2].Your_Answer = << "7" >>
        /\ (QuestionNo = 3 /\ resolved /\ ~pending) => view = "results"

\* the scenario has run to the results with the cards drawn last, first, second
C8_Witness ==
    /\ view = "results" /\ ~pending
    /\ drawn = << 2, 0, 1 >>
    /\ quiz_data.correct_count = 1 /\ quiz_data.incorrect_count = 2

\* ---- generate_options and check_answer, called directly (SpecCalls)
Returned(fn) == call.fn = fn /\ call.returned

\* how many entries of the list sq are x
Count(sq, x) == Cardinality({k \in DOMAIN sq : sq[k] = x})

\* the text trimmed and case-folded
Fold(t) == Lower(Strip(t))

\* C11 as stated: the list generate_options returns holds the correct answer
\* exactly as it was passed, surrounding whitespace included, exactly once.
C11_ExactCorrectOnce ==
    Returned("generate_options") =>
        Count(call.result, call.correct_answer) = 1

\* C11 amended: the list generate_options returns holds the trimmed correct
\* answer exactly once; it holds the correct answer as passed only when that
\* has no leading or trailing whitespace.
C11_TrimmedCorrectOnce ==
    Returned("generate_options") =>
        /\ Count(call.result, Strip(call.correct_answer)) = 1
        /\ Count(call.result, call.correct_answer) =
              (IF call.correct_answer = Strip(call.correct_answer) THEN 1 ELSE 0)

\* a correct answer with trailing whitespace, returned among other options
C11_Witness ==
    /\ Returned("generate_options")
    /\ call.correct_answer = << "a", " " >>
    /\ Len(call.result) = 3
    /\ Count(call.result, << "a" >>) = 1

\* C12 as stated: no two entries of the list generate_options returns are
\* equal after trimming and case-folding.
C12_NoFoldedDuplicates ==
    Returned("generate_options") =>
        \A i, j \in DOMAIN call.result :
            i # j => Fold(call.result[i]) # Fold(call.result[j])

\* C12 amended: no two entries of the list are equal after trimming, and the
\* only entry that is a case or whitespace variant of the correct answer is
\* the trimmed correct answer itself.
C12_NoTrimmedDuplicates ==
    Returned("generate_options") =>
        /\ \A i, j \in DOMAIN call.result :
              i # j => Strip(call.result[i]) # Strip(call.result[j])
        /\ \A i \in DOMAIN call.result :
              Fold(call.result[i]) = Fold(call.correct_answer)
                  => call.result[i] = Strip(call.correct_answer)

\* whitespace variants of one distractor and a case variant of the correct
\* answer were all in the universe, and one distractor was returned
C12_Witness ==
    /\ Returned("generate_options")
    /\ call.correct_answer = << "a" >>
    /\ {<< "A" >>, << "b" >>, << " ", "b" >>} \subseteq call.all_answers
    /\ call.num_options = 3
    /\ Len(call.result) = 2

Min(a, b) == IF a <= b THEN a ELSE b

\* the answers of the universe that are no case or whitespace variant of the
\* correct answer
Distractors == {a \in call.all_answers : Fold(a) # Fold(call.correct_answer)}

\* C13 as stated, the pool deduplicated by the comparison the specification
\* names (trimmed and case-folded): the list has min(width, 1 + |pool|)
\* entries.
C13_LengthFoldedPool ==
    Returned("generate_options") =>
        Len(call.result) =
            Min(call.num_options, 1 + Cardinality({Fold(a) : a \in Distractors}))

\* C13 amended: with the pool the distinct trimmed values of the distractors
\* (letter case kept), the list has min(width, 1 + |pool|) entries, each the
\* trimmed correct answer or a member of the pool: width entries when the pool
\* has at least width - 1 members, else the correct answer and the whole pool.
C13_LengthTrimmedPool ==
    Returned("generate_options") =>
        LET pool == {Strip(a) : a \in Distractors}
            returned == {call.result[k] : k \in DOMAIN call.result}
        IN  /\ Len(call.result) = Min(call.num_options, 1 + Cardinality(pool))
            /\ returned \subseteq pool \cup {Strip(call.correct_answer)}
            /\ Cardinality(pool) < call.num_options - 1 => pool \subseteq returned

\* fewer than width options: the pool has one member, two whitespace variants
\* of it were in the universe
C13_Witness ==
    /\ Returned("generate_options")
    /\ call.num_options = 3
    /\ Cardinality(Distractors) = 2
    /\ Len(call.result) = 2

\* the text between the first and the last character that is no whitespace
Core(t) ==
    LET inked == {k \in DOMAIN t : t[k] \notin Whitespace}
    IN  IF inked = {}
        THEN << >>
        ELSE SubSeq(t, CHOOSE k \in inked : \A m \in inked : k <= m,
                       CHOOSE k \in inked : \A m \in inked : m <= k)

\* the same letters, whatever their case
SameLetters(x, y) ==
    /\ Len(x) = Len(y)
    /\ \A k \in DOMAIN x : LowerChar(x[k]) = LowerChar(y[k])

\* C14: check_answer returns false when the candidate is absent and otherwise
\* true exactly when candidate and correct answer are equal after trimming
\* and case-folding; the call changes nothing of the session state.
C14_CheckAnswer ==
    [][ (call'.fn = "check_answer" /\ call'.returned) =>
          /\ call'.result =
                (/\ call'.user_answer # None
                 /\ SameLetters(Core(call'.user_answer[1]),
                                Core(call'.correct_answer)))
          /\ UNCHANGED session_state ]_vars

\* a candidate that differs from the correct answer in case and whitespace
\* was judged correct
C14_Witness ==
    /\ Returned("check_answer")
    /\ call.user_answer = Some(<< " ", "a" >>)
    /\ call.correct_answer = << "A" >>
    /\ call.result

\* ---- the action buttons of the question view (Spec)
\* the current question is submitted or revealed
Resolved == quiz_data.submitted \/ quiz_data.show_answer_clicked

\* C15: after every script run that displays a question, Reveal (and, with an
\* answer selected, Submit) is offered and Next is not while the question is
\* neither submitted nor revealed; Next is offered and Submit and Reveal are
\* not once it is submitted or revealed.
C15_ButtonsFollowSubMode ==
    (view = "question" /\ ~pending) =>
        IF Resolved
        THEN /\ "next" \in offered
             /\ "submit" \notin offered
             /\ "show_answer" \notin offered
        ELSE /\ "show_answer" \in offered
             /\ StoredAnswer # None => "submit" \in offered
             /\ "next" \notin offered

\* ---- Submit and the "No answer" entries of the log (SpecNoAnswer)
\* the entries the step appends to the incorrect log
NewIncorrect ==
    {quiz_data'.incorrect_questions[k] :
        k \in DOMAIN quiz_data'.incorrect_questions
              \ DOMAIN quiz_data.incorrect_questions}

\* C16 as stated: Submit never resolves a question while no answer is
\* selected, and no step of Submit appends a log entry whose user answer is
\* "No answer": each such entry is appended by Reveal.
C16_NoAnswerOnlyByReveal ==
    [][ /\ lastEvent' = "submit" => StoredAnswer # None
        /\ \A e \in NewIncorrect :
              e.Your_Answer = NoAnswerText => lastEvent' = "show_answer" ]_vars

\* C16 amended: Submit never resolves a question while no answer is selected;
\* a log entry appended while no answer is selected is appended by Reveal and
\* reads "No answer"; an entry appended by Submit holds the selected option,
\* which reads "No answer" when that is the text of the option.
C16_AbsentOnlyByReveal ==
    [][ /\ lastEvent' = "submit" => StoredAnswer # None
        /\ lastEvent' = "resubmit" => NewIncorrect = {}
        /\ \A e \in NewIncorrect :
              IF StoredAnswer = None
              THEN lastEvent' = "show_answer" /\ e.Your_Answer = NoAnswerText
              ELSE e.Your_Answer = StoredAnswer[1] ]_vars

\* Submit of the selected option "No answer", for the card whose answer is
\* another, has put an entry reading "No answer" in the incorrect log
C16_Witness ==
    /\ lastEvent = "submit"
    /\ StoredAnswer = Some(NoAnswerText)
    /\ quiz_data.incorrect_questions # << >>
    /\ quiz_data.incorrect_questions[Len(quiz_data.incorrect_questions)].Your_Answer
          = NoAnswerText

\* ---- the results file (Spec)
\* the list p is the beginning of the list sq
IsPrefix(p, sq) == Len(p) <= Len(sq) /\ SubSeq(sq, 1, Len(p)) = p

\* C17: every script run leaves the rows that were in the results file in
\* it, unchanged and in their order, a new row coming after them; also when
\* the read of the file fails.
C17_AppendOnly ==
    [][ RenderStep => IsPrefix(results_file, results_file') ]_vars

\* C18: a script run whose write of the results file fails reports the
\* failure, leaves the counts, the logs and the used indices of the finished
\* quiz as they were, and does not report the attempt as recorded.
C18_FailedWriteNotSuccess ==
    [][ (RenderStep /\ "error_saving" \in messages') =>
            /\ view' = "results"
            /\ Tally(quiz_data') = Tally(quiz_data)
            /\ "success_recorded" \notin messages' ]_vars

\* ---- the effect of Submit (Spec)
\* the answer texts a log entry holds
AnswerFields(e) == {e[f] : f \in DOMAIN e \ {"questions", "Question"}}

\* the question a log entry holds
QuestionField(e) == IF "questions" \in DOMAIN e THEN e.questions ELSE e.Question

\* the counts, the used set and the two flags after Submit of the current card
SubmitBookkeeping(correct) ==
    /\ current_card_index \notin Used
    /\ StoredAnswer # None
    /\ quiz_data'.correct_count =
          quiz_data.correct_count + (IF correct THEN 1 ELSE 0)
    /\ quiz_data'.incorrect_count =
          quiz_data.incorrect_count + (IF correct THEN 0 ELSE 1)
    /\ quiz_data'.used_questions = Used \cup {current_card_index}
    /\ quiz_data'.submitted /\ quiz_data'.show_answer

\* C19 as stated: Submit of the selection s for the unresolved card i adds
\* one to correct_count when check_answer holds and else to incorrect_count,
\* appends to the matching log one entry that holds the card's question, its
\* correct answer and s, adds i to the used indices and sets submitted and
\* show_answer; the other count and the other log stay.
C19_SubmitLogsUserAnswer ==
    [][ lastEvent' = "submit" =>
          LET correct == check_answer(StoredAnswer, CurrentCard.answer)
              log == IF correct THEN quiz_data.correct_questions
                                ELSE quiz_data.incorrect_questions
              log_ == IF correct THEN quiz_data'.correct_questions
                                 ELSE quiz_data'.incorrect_questions
          IN  /\ SubmitBookkeeping(correct)
              /\ Len(log_) = Len(log) + 1 /\ IsPrefix(log, log_)
              /\ QuestionField(log_[Len(log_)]) = CurrentCard.questions
              /\ {CurrentCard.answer, StoredAnswer[1]}
                    \subseteq AnswerFields(log_[Len(log_)])
              /\ correct =>
                    quiz_data'.incorrect_questions = quiz_data.incorrect_questions
              /\ ~correct =>
                    quiz_data'.correct_questions = quiz_data.correct_questions ]_vars

\* C19 amended: as stated, but the entry appended to the correct log holds the
\* card's question and its correct answer only; the entry appended to the
\* incorrect log holds the question, the correct answer and s.
C19_SubmitEffect ==
    [][ lastEvent' = "submit" =>
          LET correct == check_answer(StoredAnswer, CurrentCard.answer)
          IN  /\ SubmitBookkeeping(correct)
              /\ IF correct
                 THEN /\ quiz_data'.correct_questions =
                            Append(quiz_data.correct_questions,
                                   [ questions |-> CurrentCard.questions,
                                     answer |-> CurrentCard.answer ])
                      /\ quiz_data'.incorrect_questions =
                            quiz_data.incorrect_questions
                 ELSE /\ quiz_data'.incorrect_questions =
                            Append(quiz_data.incorrect_questions,
                                   [ Question |-> CurrentCard.questions,
                                     Correct_Answer |-> CurrentCard.answer,
                                     Your_Answer |-> StoredAnswer[1] ])
                      /\ quiz_data'.correct_questions =
                            quiz_data.correct_questions ]_vars

\* Submit has counted a selection correct whose text differs from the card's
\* answer, and the entry of the correct log holds the card's answer only
C19_Witness ==
    /\ lastEvent = "submit"
    /\ quiz_data.correct_count = 1
    /\ StoredAnswer # None /\ StoredAnswer[1] # CurrentCard.answer
    /\ quiz_data.correct_questions[1].answer = CurrentCard.answer

\* ---- the options of the current question (Spec)
\* C20: the options are generated in the step that stores a new current
\* index, and no step that leaves the stored index as it is changes them:
\* not a script run, not Select, Submit or Reveal.
C20_OptionsStable ==
    [][ /\ (HasCurrent /\ current_card_index' = current_card_index) =>
              /\ quiz_data.current_options # << >>
              /\ quiz_data'.current_options = quiz_data.current_options
        /\ (current_card_index' # current_card_index /\ current_card_index' # NoIndex) =>
              quiz_data'.current_options \in
                  generate_options(Card(flashcards, current_card_index').answer,
                                   AllAnswers(flashcards), NUM_OPTIONS) ]_vars

\* the script run after Submit displays the two options it displayed before:
\* their order is the one drawn first
C20_Witness ==
    /\ lastEvent = "render_question"
    /\ quiz_data.submitted
    /\ Len(quiz_data.current_options) = 2
    /\ StoredAnswer # None

\* ---- the effect of Next (Spec)
\* C21: Next, pressed for a submitted or revealed question, removes the
\* current index and the options and clears submitted, show_answer and
\* show_answer_clicked; the counts, the logs, the used indices and the stored
\* answers stay as they were and the quiz stays started.
C21_NextEffect ==
    [][ lastEvent' = "next" =>
            /\ Resolved /\ HasCurrent
            /\ current_card_index' = NoIndex
            /\ quiz_data'.current_options = << >>
            /\ ~quiz_data'.submitted
            /\ ~quiz_data'.show_answer
            /\ ~quiz_data'.show_answer_clicked
            /\ Tally(quiz_data') = Tally(quiz_data)
            /\ quiz_data'.user_answers = quiz_data.user_answers
            /\ quiz_data'.quiz_started /\ quiz_data.quiz_started ]_vars

\* Next pressed after Reveal, with one question counted incorrect, an answer
\* stored for it and another question left
C21_Witness ==
    /\ lastEvent = "next"
    /\ quiz_data.incorrect_count = 1
    /\ Used # {} /\ Used # AllIndices(flashcards)
    /\ \E i \in DOMAIN quiz_data.user_answers : quiz_data.user_answers[i] # None

\* ---- progress to the results (Spec)
\* the buttons that resolve the displayed question or move on from it
ProgressButtons == {"submit", "show_answer", "next"}

\* C22, its safety part: a started quiz with a question on display always
\* offers a way on (Reveal or Submit while it is unresolved, Next once it is
\* resolved), so no script run leaves the user stuck short of the results; and
\* the results are on display only with every one of the N indices resolved,
\* each counted once.
C22_NeverStuck ==
    /\ (Started /\ ~pending /\ view = "question") =>
          /\ offered \cap ProgressButtons # {}
          /\ ~Resolved => "show_answer" \in offered
          /\ Resolved => "next" \in offered
    /\ (Started /\ ~pending /\ view = "results") =>
          /\ Cardinality(Used) = Len(flashcards)
          /\ quiz_data.correct_count + quiz_data.incorrect_count = Len(flashcards)

\* ---- the logs and the counts (Spec)
\* how many entries of the two logs are about the card with index i
EntriesFor(i) ==
    Cardinality({k \in DOMAIN quiz_data.correct_questions :
                    quiz_data.correct_questions[k].questions
                        = Card(flashcards, i).questions})
    + Cardinality({k \in DOMAIN quiz_data.incorrect_questions :
                    quiz_data.incorrect_questions[k].Question
                        = Card(flashcards, i).questions})

\* C23: in every reachable state the correct log has correct_count entries
\* and the incorrect log incorrect_count entries, every used index has exactly
\* one entry in the two logs together, and an unused index has none.
C23_LogsMatchCounts ==
    /\ Len(quiz_data.correct_questions) = quiz_data.correct_count
    /\ Len(quiz_data.incorrect_questions) = quiz_data.incorrect_count
    /\ \A i \in AllIndices(flashcards) :
          EntriesFor(i) = (IF i \in Used THEN 1 ELSE 0)

\* one card was revealed with nothing selected and is logged incorrect, the
\* other has just been submitted and is logged correct
C23_Witness ==
    /\ lastEvent = "submit"
    /\ Len(quiz_data.correct_questions) = 1
    /\ Len(quiz_data.incorrect_questions) = 1
    /\ quiz_data.incorrect_questions[1].Your_Answer = NoAnswerText

\* ---- the results_recorded marker and restarts (Spec)
\* C24: the marker belongs to one session. It is set only in a finished quiz;
\* every start or restart, also from results already recorded, leaves the new
\* quiz without it; and the first script run that finds the new quiz finished
\* records it again, once: it sets the marker and, with a user name set and
\* the write succeeding, adds the row of this session as the last row.
C24_MarkerPerSession ==
    /\ [](quiz_data.results_recorded => Finished)
    /\ [][ lastEvent' \in StartEvents =>
              (~quiz_data'.results_recorded /\ appends' = 0) ]_vars
    /\ [][ (RenderStep /\ Finished /\ lastEvent \in {"submit", "show_answer"}) =>
              /\ ~quiz_data.results_recorded
              /\ quiz_data'.results_recorded
              /\ messages' # {}
              /\ (user \notin {"", "Unknown"} /\ "error_saving" \notin messages') =>
                    /\ appends' = 1
                    /\ results_file'[Len(results_file')].Timestamp = session ]_vars

\* the restarted session is finished and recorded, its row after the row of
\* the first session
C24_Witness ==
    /\ session = 2 /\ Finished
    /\ lastEvent = "render_results"
    /\ quiz_data.results_recorded /\ appends = 1
    /\ Len(results_file) = 2
    /\ results_file[1].Timestamp = 1 /\ results_file[2].Timestamp = 2
====
